---- MODULE Spec2Model ----
(***************************************************************************)
(* Model of src/js/common.js: the debounce and throttle wrappers and the  *)
(* localStorage helpers (setStorage, getStorage, removeStorage,           *)
(* clearStorage).                                                          *)
(*                                                                         *)
(* The host is the browser's event loop: one task runs to completion, a    *)
(* timer set with setTimeout(cb, d) fires no earlier than d after it was   *)
(* set, timers fire in the order of their due times (creation order on a   *)
(* tie), and no timer fires while a task is still on the stack.            *)
(***************************************************************************)
EXTENDS Integers, Sequences, FiniteSets, TLC

\* ------------------------------------------------------------------ bounds
MaxTime == 5      \* the clock runs from 0 to MaxTime
MaxWait == 2      \* debounce wait / throttle limit are drawn from 0..MaxWait
MaxCalls == 3     \* invocations of a wrapper per behaviour
MaxDepth == 2     \* nesting of throttled action executions

\* The argument list of the n-th invocation of a wrapper: every invocation
\* hands over arguments of its own, so that the invocation a delivery comes
\* from shows in the arguments delivered.
ArgsOf(n) == {10 * n}

VARIABLES
    now,          \* the host clock (ms)
    timers,       \* the host's pending timers
    nextId,       \* the next timer handle setTimeout returns
    \* ---- debounce(func, wait): one wrapper
    dWait,        \* its wait
    timeout,      \* the closure's `timeout` (0: undefined)
    dcalls,       \* history: the invocations of executedFunction
    dexecs,       \* history: the executions of func
    dfired,       \* history: the invocations whose timer has fired
    \* ---- throttle(func, limit): one wrapper
    tLimit,       \* its limit
    inThrottle,   \* the closure's `inThrottle`: "undefined", "true", "false"
    tstack,       \* the executions of func that are on the stack (line 515)
    tcalls,       \* history: the invocations of the wrapper
    texecs,       \* history: the executions of func
    closedAt,     \* history: when `inThrottle = true` was last assigned
    outcome,      \* how the last execution of func ended
    \* ---- localStorage helpers
    store,        \* localStorage: key -> entry
    ghost,        \* history: the last operation that took effect on each key
    last,         \* history: the last operation, its inputs and its result
    failedSet     \* history: the failing setStorage right before it, if any

timerVars    == <<now, timers, nextId>>
debounceVars == <<dWait, timeout, dcalls, dexecs, dfired>>
throttleVars == <<tLimit, inThrottle, tstack, tcalls, texecs, closedAt, outcome>>
storageVars  == <<store, ghost, last, failedSet>>
vars == <<now, timers, nextId, dWait, timeout, dcalls, dexecs, dfired,
          tLimit, inThrottle, tstack, tcalls, texecs, closedAt, outcome,
          store, ghost, last, failedSet>>

\* ------------------------------------------------------------- host timers
\* setTimeout(cb, delay): a new pending timer, due `delay` from now.
setTimeout(ts, id, kind, delay, args, call) ==
    ts \cup {[id |-> id, due |-> now + delay, kind |-> kind,
              args |-> args, call |-> call]}

\* clearTimeout(id): the timer with that handle is no longer pending;
\* an unknown, fired or undefined handle is ignored.
clearTimeout(ts, id) == {t \in ts : t.id # id}

\* The timer the event loop runs next: due, and first in (due, id) order.
IsNextTimer(t) ==
    /\ t \in timers
    /\ t.due <= now
    /\ \A u \in timers : u.due > t.due \/ (u.due = t.due /\ u.id >= t.id)

\* Time passes, also while a task runs. The clock stops at MaxTime; while func
\* is on the stack it stops early enough for the timer set on its return to
\* come due.
Tick ==
    /\ now < MaxTime
    /\ tstack # <<>> => now + 1 + tLimit <= MaxTime
    /\ now' = now + 1
    /\ UNCHANGED <<timers, nextId>>
    /\ UNCHANGED debounceVars
    /\ UNCHANGED throttleVars
    /\ UNCHANGED storageVars

\* ---------------------------------------------------------------- debounce
\* The closure state of one debounce wrapper together with the host's timers.
DState == [timeout |-> timeout, timers |-> timers, nextId |-> nextId]

\* A bug: the pending timer is not cancelled before the new one is set.
executedFunctionNoClear(st, args, call) ==
    [timeout |-> st.nextId,
     timers  |-> setTimeout(st.timers, st.nextId, "later", dWait, args, call),
     nextId  |-> st.nextId + 1]

\* executedFunction(...args), lines 495-502.
executedFunction(st, args, call) ==
    [timeout |-> st.nextId,
     timers  |-> setTimeout(clearTimeout(st.timers, st.timeout),
                            st.nextId, "later", dWait, args, call),
     nextId  |-> st.nextId + 1]

\* A bug: the timer that fired is armed again, as an interval would be.
laterRepeats(st, t) ==
    [st EXCEPT !.timers = @ \cup {[t EXCEPT !.due = now + dWait]}]

\* later(), lines 496-499, up to the call of func; t is the timer that fired.
later(st, t) == [st EXCEPT !.timers = clearTimeout(@, st.timeout)]

\* The burst an invocation belongs to: the burst of the invocation before it
\* when that one's timer has not fired yet, a new burst otherwise.
BurstOf(n, fired) ==
    IF n > 1 /\ (n - 1) \notin fired THEN dcalls[n - 1].burst ELSE n

\* An invocation of the wrapper from a task of its own.
DebounceCall(a) ==
    /\ Len(dcalls) < MaxCalls
    /\ now + dWait <= MaxTime
    /\ LET n  == Len(dcalls) + 1
           st == executedFunction(DState, a, n)
       IN /\ timeout' = st.timeout
          /\ timers' = st.timers
          /\ nextId' = st.nextId
          /\ dcalls' = Append(dcalls, [args |-> a, at |-> now, burst |-> BurstOf(n, dfired)])
    /\ UNCHANGED <<now, dWait, dexecs, dfired>>
    /\ UNCHANGED throttleVars
    /\ UNCHANGED storageVars

\* The wrapper's timer fires: later() runs and func returns.
DebounceFire ==
    \E t \in timers :
        /\ IsNextTimer(t)
        /\ t.kind = "later"
        /\ tstack = <<>>
        /\ LET st == later([DState EXCEPT !.timers = timers \ {t}], t)
           IN /\ timeout' = st.timeout
              /\ timers' = st.timers
              /\ nextId' = st.nextId
        /\ dexecs' = Append(dexecs, [args |-> t.args, at |-> now, call |-> t.call])
        /\ dfired' = dfired \cup {t.call}
        /\ UNCHANGED <<now, dWait, dcalls>>
        /\ UNCHANGED throttleVars
        /\ UNCHANGED storageVars

\* The wrapper's timer fires and func calls the wrapper again from within.
DebounceFireReentrant(a) ==
    \E t \in timers :
        /\ IsNextTimer(t)
        /\ t.kind = "later"
        /\ tstack = <<>>
        /\ Len(dcalls) < MaxCalls
        /\ now + dWait <= MaxTime
        /\ LET n  == Len(dcalls) + 1
               st == executedFunction(
                         later([DState EXCEPT !.timers = timers \ {t}], t), a, n)
           IN /\ timeout' = st.timeout
              /\ timers' = st.timers
              /\ nextId' = st.nextId
              /\ dcalls' = Append(dcalls, [args |-> a, at |-> now,
                                       burst |-> BurstOf(n, dfired \cup {t.call})])
        /\ dexecs' = Append(dexecs, [args |-> t.args, at |-> now, call |-> t.call])
        /\ dfired' = dfired \cup {t.call}
        /\ UNCHANGED <<now, dWait>>
        /\ UNCHANGED throttleVars
        /\ UNCHANGED storageVars

InitTimers == now = 0 /\ timers = {} /\ nextId = 1

\* debounce(func, wait), lines 493-494: `let timeout;`
InitDebounce(waits) ==
    /\ dWait \in waits
    /\ timeout = 0
    /\ dcalls = <<>>
    /\ dexecs = <<>>
    /\ dfired = {}

NextDebounce ==
    \/ Tick
    \/ \E a \in ArgsOf(Len(dcalls) + 1) : DebounceCall(a)
    \/ DebounceFire
    \/ \E a \in ArgsOf(Len(dcalls) + 1) : DebounceFireReentrant(a)

\* ------------------------------------------------------ claims on debounce
DCalls == 1..Len(dcalls)
DExecs == 1..Len(dexecs)
BurstCalls(b) == {i \in DCalls : dcalls[i].burst = b}
ExecsOfBurst(b) == {e \in DExecs : dcalls[dexecs[e].call].burst = b}
Quiet == \A t \in timers : t.kind # "later"

\* C1: a burst of invocations, each made before the timer of the one before
\* it has fired, executes func at most once, and exactly once when no timer
\* is left pending; the execution is that of the burst's last invocation,
\* carries that invocation's arguments and comes no earlier than wait after
\* it; a superseded invocation is never delivered.
C1_DebounceBurst ==
    /\ \A e \in DExecs :
          LET c == dexecs[e].call
          IN /\ c \in DCalls
             /\ dexecs[e].args = dcalls[c].args
             /\ dexecs[e].at >= dcalls[c].at + dWait
             /\ \A j \in BurstCalls(dcalls[c].burst) : j <= c
    /\ \A i \in DCalls : Cardinality(ExecsOfBurst(dcalls[i].burst)) <= 1
    /\ Quiet => \A i \in DCalls : Cardinality(ExecsOfBurst(dcalls[i].burst)) = 1

\* A burst of three invocations with different arguments has been executed.
C1_Witness ==
    /\ Len(dcalls) = 3
    /\ Cardinality(BurstCalls(1)) = 3
    /\ dcalls[1].args # dcalls[3].args
    /\ dcalls[3].at > dcalls[1].at
    /\ Len(dexecs) = 1
    /\ dexecs[1].call = 3

\* Every invocation so far was made after the timer of the one before fired.
AllSpaced == \A i \in DCalls : dcalls[i].burst = i

\* The timer of invocation i is pending.
PendingOf(i) == \E t \in timers : t.kind = "later" /\ t.call = i

\* C8: func is never executed more often than the wrapper was invoked; when
\* every invocation came after the timer of the one before had fired, func is
\* executed once per invocation, in order, each time with that invocation's
\* arguments; and no timer stays pending forever.
C8_DebounceSpaced ==
    /\ [](Len(dexecs) <= Len(dcalls))
    /\ [](AllSpaced =>
            /\ \A e \in DExecs : /\ dexecs[e].call = e
                                 /\ dexecs[e].args = dcalls[e].args
            /\ Quiet => Len(dexecs) = Len(dcalls))
    /\ \A i \in 1..MaxCalls : PendingOf(i) ~> ~PendingOf(i)

\* Three invocations more than wait apart, each executed.
C8_Witness ==
    /\ Len(dcalls) = 3
    /\ AllSpaced
    /\ \A i \in 2..3 : dcalls[i].at > dcalls[i - 1].at + dWait
    /\ dcalls[1].args # dcalls[2].args
    /\ Len(dexecs) = 3

\* ---------------------------------------------------------------- throttle
\* The closure state of one throttle wrapper together with the host's timers.
TState == [inThrottle |-> inThrottle, timers |-> timers, nextId |-> nextId]

\* `!inThrottle`, line 514: undefined and false are falsy.
GateOpen(st) == st.inThrottle # "true"

\* A bug: the gate is closed before func is called.
enterClosing(st) == [st EXCEPT !.inThrottle = "true"]

\* Lines 514-515, from the test of the gate to the call of func: nothing is
\* assigned before func runs.
enter(st) == st

\* A bug: the reopen timer is set for twice the limit.
leaveLate(st) ==
    [inThrottle |-> "true",
     timers     |-> setTimeout(st.timers, st.nextId, "reopen", 2 * tLimit, 0, 0),
     nextId     |-> st.nextId + 1]

\* Lines 516-517, after func has returned: the gate closes and its reopening
\* is scheduled.
leave(st) ==
    [inThrottle |-> "true",
     timers     |-> setTimeout(st.timers, st.nextId, "reopen", tLimit, 0, 0),
     nextId     |-> st.nextId + 1]

\* A bug: a dropped invocation restarts the cooldown.
droppedRestarts(st) ==
    [st EXCEPT !.timers = setTimeout({}, st.nextId, "reopen", tLimit, 0, 0),
               !.nextId = st.nextId + 1]

\* Line 514 with the gate closed: the body of the `if` is skipped.
dropped(st) == st

\* The timer's callback, line 517: `inThrottle = false`.
reopen(st) == [st EXCEPT !.inThrottle = "false"]

\* An invocation of the wrapper, from a task of its own or from within func.
ThrottleCall(a) ==
    /\ Len(tcalls) < MaxCalls
    /\ now + tLimit <= MaxTime
    /\ LET n == Len(tcalls) + 1
       IN IF GateOpen(TState)
          THEN /\ Len(tstack) < MaxDepth
               /\ LET st == enter(TState)
                  IN /\ inThrottle' = st.inThrottle
                     /\ timers' = st.timers
                     /\ nextId' = st.nextId
               /\ tstack' = Append(tstack, [args |-> a, call |-> n])
               /\ texecs' = Append(texecs, [args |-> a, at |-> now, call |-> n])
               /\ tcalls' = Append(tcalls, [args |-> a, at |-> now,
                                            depth |-> Len(tstack)])
          ELSE /\ LET st == dropped(TState)
                  IN /\ inThrottle' = st.inThrottle
                     /\ timers' = st.timers
                     /\ nextId' = st.nextId
               /\ tcalls' = Append(tcalls, [args |-> a, at |-> now,
                                            depth |-> Len(tstack)])
               /\ UNCHANGED <<tstack, texecs>>
    /\ UNCHANGED <<now, tLimit, closedAt, outcome>>
    /\ UNCHANGED debounceVars
    /\ UNCHANGED storageVars

\* func returns normally to the wrapper, which runs lines 516-517.
ThrottleReturn ==
    /\ tstack # <<>>
    /\ tstack' = SubSeq(tstack, 1, Len(tstack) - 1)
    /\ LET st == leave(TState)
       IN /\ inThrottle' = st.inThrottle
          /\ timers' = st.timers
          /\ nextId' = st.nextId
    /\ closedAt' = now
    /\ outcome' = "returned"
    /\ UNCHANGED <<now, tLimit, tcalls, texecs>>
    /\ UNCHANGED debounceVars
    /\ UNCHANGED storageVars

\* func raises: line 515 is not in a try, the wrapper is left at once.
ThrottleThrow ==
    /\ tstack # <<>>
    /\ tstack' = SubSeq(tstack, 1, Len(tstack) - 1)
    /\ outcome' = "threw"
    /\ UNCHANGED <<now, timers, nextId, tLimit, inThrottle, tcalls, texecs, closedAt>>
    /\ UNCHANGED debounceVars
    /\ UNCHANGED storageVars

\* A reopen timer fires, between tasks.
ThrottleReopen ==
    \E t \in timers :
        /\ IsNextTimer(t)
        /\ t.kind = "reopen"
        /\ tstack = <<>>
        /\ LET st == reopen([TState EXCEPT !.timers = timers \ {t}])
           IN /\ inThrottle' = st.inThrottle
              /\ timers' = st.timers
              /\ nextId' = st.nextId
        /\ UNCHANGED <<now, tLimit, tstack, tcalls, texecs, closedAt, outcome>>
        /\ UNCHANGED debounceVars
        /\ UNCHANGED storageVars

\* throttle(func, limit), lines 511-512: `let inThrottle;`
InitThrottle(limits) ==
    /\ tLimit \in limits
    /\ inThrottle = "undefined"
    /\ tstack = <<>>
    /\ tcalls = <<>>
    /\ texecs = <<>>
    /\ closedAt = 0
    /\ outcome = "none"

NextThrottle ==
    \/ Tick
    \/ \E a \in ArgsOf(Len(tcalls) + 1) : ThrottleCall(a)
    \/ ThrottleReturn
    \/ ThrottleThrow
    \/ ThrottleReopen

\* ----------------------------------------------------- localStorage helpers
\* JavaScript values: a tag and a payload (the digits of a number, the
\* characters of a string, the elements of an array, the value of the
\* property `a` of an object).
Undefined == [t |-> "undefined", x |-> <<>>]
Null      == [t |-> "null", x |-> <<>>]
NaN       == [t |-> "nan", x |-> <<>>]
Bool(b)   == [t |-> "bool", x |-> <<b>>]
Num(d)    == [t |-> "num", x |-> <<d>>]
Str(cs)   == [t |-> "str", x |-> cs]
Arr(vs)   == [t |-> "arr", x |-> vs]
Obj(vs)   == [t |-> "obj", x |-> vs]
Cyclic    == [t |-> "cyclic", x |-> <<>>]

Digits == {"0", "1"}
Chars  == {"a", "b"}
Keys   == {"k1", "k2"}

\* The values handed to setStorage.
Values ==
    {Undefined, Null, NaN, Str(<<>>), Arr(<<Str(<<"a">>), Num("0")>>),
     Obj(<<Num("1")>>), Cyclic}

\* A text is a sequence of tokens. The texts found in the store at start,
\* written by other code: the empty string and a truncated document.
ForeignTexts == {<<>>, <<"{", "\"", "a">>}

\* JSON.stringify raises on a value that contains itself.
RECURSIVE HasCycle(_)
HasCycle(v) ==
    \/ v.t = "cyclic"
    \/ /\ v.t \in {"arr", "obj"}
       /\ \E i \in 1..Len(v.x) : HasCycle(v.x[i])

\* The JSON text of a value inside a document: NaN becomes null, undefined
\* becomes null in an array, and a property that is undefined is left out.
RECURSIVE Serialize(_)
Serialize(v) ==
    CASE v.t \in {"null", "nan", "undefined"} -> <<"null">>
      [] v.t \in {"bool", "num"} -> v.x
      [] v.t = "str" -> <<"\"">> \o v.x \o <<"\"">>
      [] v.t = "arr" ->
            LET RECURSIVE Elems(_)
                Elems(i) ==
                    IF i > Len(v.x) THEN <<>>
                    ELSE (IF i > 1 THEN <<",">> ELSE <<>>)
                         \o Serialize(v.x[i]) \o Elems(i + 1)
            IN <<"[">> \o Elems(1) \o <<"]">>
      [] v.t = "obj" ->
            IF v.x = <<>> \/ v.x[1].t = "undefined"
            THEN <<"{", "}">>
            ELSE <<"{", "\"", "a", "\"", ":">> \o Serialize(v.x[1]) \o <<"}">>
      [] OTHER -> <<>>

\* JSON.stringify(value), line 270: a text, undefined for undefined, or an
\* exception.
JSONstringify(v) ==
    IF HasCycle(v) THEN [kind |-> "throws", text |-> <<>>]
    ELSE IF v.t = "undefined" THEN [kind |-> "undefined", text |-> <<>>]
    ELSE [kind |-> "text", text |-> Serialize(v)]

\* String(x) as setItem applies it to its second argument.
ToText(j) == IF j.kind = "undefined" THEN <<"undefined">> ELSE j.text

Tail2(ts) == SubSeq(ts, 2, Len(ts))
Fail == [ok |-> FALSE, val |-> Undefined, rest |-> <<>>]

\* One JSON value read from the front of a token sequence.
RECURSIVE ParseValue(_)
ParseValue(ts) ==
    IF ts = <<>> THEN Fail
    ELSE LET h == Head(ts)
             r == Tail2(ts)
         IN CASE h = "null" -> [ok |-> TRUE, val |-> Null, rest |-> r]
              [] h \in {"true", "false"} -> [ok |-> TRUE, val |-> Bool(h), rest |-> r]
              [] h \in Digits -> [ok |-> TRUE, val |-> Num(h), rest |-> r]
              [] h = "\"" ->
                    LET close == {i \in 1..Len(r) : r[i] = "\""}
                    IN IF close = {} THEN Fail
                       ELSE LET c == CHOOSE i \in close : \A j \in close : i <= j
                            IN IF \A i \in 1..(c - 1) : r[i] \in Chars
                               THEN [ok |-> TRUE, val |-> Str(SubSeq(r, 1, c - 1)),
                                     rest |-> SubSeq(r, c + 1, Len(r))]
                               ELSE Fail
              [] h = "[" ->
                    LET RECURSIVE Elems(_, _)
                        Elems(acc, us) ==
                            LET e == ParseValue(us)
                            IN IF ~e.ok \/ e.rest = <<>> THEN Fail
                               ELSE IF Head(e.rest) = "]"
                               THEN [ok |-> TRUE, val |-> Arr(Append(acc, e.val)),
                                     rest |-> Tail2(e.rest)]
                               ELSE IF Head(e.rest) = ","
                               THEN Elems(Append(acc, e.val), Tail2(e.rest))
                               ELSE Fail
                    IN IF r # <<>> /\ Head(r) = "]"
                       THEN [ok |-> TRUE, val |-> Arr(<<>>), rest |-> Tail2(r)]
                       ELSE Elems(<<>>, r)
              [] h = "{" ->
                    IF r # <<>> /\ Head(r) = "}"
                    THEN [ok |-> TRUE, val |-> Obj(<<>>), rest |-> Tail2(r)]
                    ELSE IF Len(r) >= 4 /\ SubSeq(r, 1, 4) = <<"\"", "a", "\"", ":">>
                    THEN LET e == ParseValue(SubSeq(r, 5, Len(r)))
                         IN IF e.ok /\ e.rest # <<>> /\ Head(e.rest) = "}"
                            THEN [ok |-> TRUE, val |-> Obj(<<e.val>>),
                                  rest |-> Tail2(e.rest)]
                            ELSE Fail
                    ELSE Fail
              [] OTHER -> Fail

\* JSON.parse(item), line 284: the value, or an exception when the text is not
\* exactly one JSON document.
JSONparse(text) ==
    LET p == ParseValue(text)
    IN IF p.ok /\ p.rest = <<>>
       THEN [ok |-> TRUE, val |-> p.val]
       ELSE [ok |-> FALSE, val |-> Undefined]

\* The store: an entry per key, present or not.
NoEntry == [has |-> FALSE, text |-> <<>>]
Entry(text) == [has |-> TRUE, text |-> text]

\* A bug of the store: the entry is written although the call raises.
setItemTorn(s, key, text, fail) ==
    [raised |-> fail, store |-> [s EXCEPT ![key] = Entry(text)]]

\* localStorage.setItem(key, text), line 270: it raises (quota, access
\* denied) and stores nothing, or stores the text.
setItem(s, key, text, fail) ==
    IF fail THEN [raised |-> TRUE, store |-> s]
    ELSE [raised |-> FALSE, store |-> [s EXCEPT ![key] = Entry(text)]]

\* localStorage.getItem(key), line 283: the entry (null when absent), or an
\* exception.
getItem(s, key, fail) ==
    IF fail THEN [raised |-> TRUE, item |-> NoEntry]
    ELSE [raised |-> FALSE, item |-> s[key]]

\* A bug of the store: removeItem does nothing.
removeItemNoOp(s, key, fail) == [raised |-> fail, store |-> s]

\* localStorage.removeItem(key), line 297.
removeItem(s, key, fail) ==
    IF fail THEN [raised |-> TRUE, store |-> s]
    ELSE [raised |-> FALSE, store |-> [s EXCEPT ![key] = NoEntry]]

\* localStorage.clear(), line 308.
clear(s, fail) ==
    IF fail THEN [raised |-> TRUE, store |-> s]
    ELSE [raised |-> FALSE, store |-> [k \in Keys |-> NoEntry]]

\* What a helper hands back: the store as its calls left it, whether it raised to its
\* caller, whether one of its steps failed, and the value returned.
Result(s, threw, failed, ret) ==
    [store |-> s, threw |-> threw, failed |-> failed, ret |-> ret]

\* A bug: no try/catch around the body.
setStorageNoCatch(s, key, value, fail) ==
    LET j == JSONstringify(value)
    IN IF j.kind = "throws" THEN Result(s, TRUE, TRUE, Undefined)
       ELSE LET r == setItem(s, key, ToText(j), fail)
            IN Result(r.store, r.raised, r.raised, Undefined)

\* setStorage(key, value), lines 268-274.
setStorage(s, key, value, fail) ==
    LET j == JSONstringify(value)
    IN IF j.kind = "throws" THEN Result(s, FALSE, TRUE, Undefined)
       ELSE LET r == setItem(s, key, ToText(j), fail)
            IN Result(r.store, FALSE, r.raised, Undefined)

\* `item ? ... : null`, line 284: null and the empty string are falsy.
Falsy(item) == ~item.has \/ item.text = <<>>

\* A bug: the stored text is handed back as it is, not parsed.
getStorageRaw(s, key, fail) ==
    LET g == getItem(s, key, fail)
    IN IF g.raised THEN Result(s, FALSE, TRUE, Null)
       ELSE IF Falsy(g.item) THEN Result(s, FALSE, FALSE, Null)
       ELSE Result(s, FALSE, FALSE, Str(g.item.text))

\* getStorage(key), lines 281-289.
getStorage(s, key, fail) ==
    LET g == getItem(s, key, fail)
    IN IF g.raised THEN Result(s, FALSE, TRUE, Null)
       ELSE IF Falsy(g.item) THEN Result(s, FALSE, FALSE, Null)
       ELSE LET p == JSONparse(g.item.text)
            IN IF p.ok THEN Result(s, FALSE, FALSE, p.val)
               ELSE Result(s, FALSE, TRUE, Null)

\* removeStorage(key), lines 295-301.
removeStorage(s, key, fail) ==
    LET r == removeItem(s, key, fail)
    IN Result(r.store, FALSE, r.raised, Undefined)

\* clearStorage(), lines 306-312.
clearStorage(s, fail) ==
    LET r == clear(s, fail)
    IN Result(r.store, FALSE, r.raised, Undefined)

\* The record of a call: what was called with what, the store before it, and
\* what came of it.
Called(op, key, value, res) ==
    [op |-> op, key |-> key, value |-> value, pre |-> store,
     threw |-> res.threw, failed |-> res.failed, ret |-> res.ret]

NoCall ==
    [op |-> "none", key |-> "", value |-> Undefined, pre |-> store,
     threw |-> FALSE, failed |-> FALSE, ret |-> Undefined]

Effect(kind, v) == [kind |-> kind, v |-> v]

\* Whether the call before the one being made was a setStorage whose storage
\* step failed, and then its key and the store it found.
Before(after) ==
    IF last.op = "set" /\ last.failed
    THEN [was |-> TRUE, key |-> last.key, pre |-> last.pre]
    ELSE [was |-> FALSE, key |-> "", pre |-> after]

SetStorage(key, value, fail) ==
    LET res == setStorage(store, key, value, fail)
    IN /\ store' = res.store
       /\ last' = Called("set", key, value, res)
       /\ failedSet' = Before(res.store)
       /\ ghost' = IF res.failed \/ res.threw THEN ghost
                   ELSE [ghost EXCEPT ![key] = Effect("set", value)]
       /\ UNCHANGED timerVars
       /\ UNCHANGED debounceVars
       /\ UNCHANGED throttleVars

GetStorage(key, fail) ==
    LET res == getStorage(store, key, fail)
    IN /\ store' = res.store
       /\ last' = Called("get", key, Undefined, res)
       /\ failedSet' = Before(res.store)
       /\ UNCHANGED ghost
       /\ UNCHANGED timerVars
       /\ UNCHANGED debounceVars
       /\ UNCHANGED throttleVars

RemoveStorage(key, fail) ==
    LET res == removeStorage(store, key, fail)
    IN /\ store' = res.store
       /\ last' = Called("remove", key, Undefined, res)
       /\ failedSet' = Before(res.store)
       /\ ghost' = IF res.failed \/ res.threw THEN ghost
                   ELSE [ghost EXCEPT ![key] = Effect("removed", Undefined)]
       /\ UNCHANGED timerVars
       /\ UNCHANGED debounceVars
       /\ UNCHANGED throttleVars

ClearStorage(fail) ==
    LET res == clearStorage(store, fail)
    IN /\ store' = res.store
       /\ last' = Called("clear", "", Undefined, res)
       /\ failedSet' = Before(res.store)
       /\ ghost' = IF res.failed \/ res.threw THEN ghost
                   ELSE [k \in Keys |-> Effect("cleared", Undefined)]
       /\ UNCHANGED timerVars
       /\ UNCHANGED debounceVars
       /\ UNCHANGED throttleVars

\* The store as the page finds it: empty, or holding what other code left.
InitStorage(texts) ==
    /\ store \in [Keys -> {NoEntry} \cup {Entry(t) : t \in texts}]
    /\ ghost = [k \in Keys |-> IF store[k].has THEN Effect("foreign", Undefined)
                               ELSE Effect("none", Undefined)]
    /\ last = NoCall
    /\ failedSet = [was |-> FALSE, key |-> "", pre |-> store]

NextStorage ==
    \/ \E k \in Keys, v \in Values, f \in BOOLEAN : SetStorage(k, v, f)
    \/ \E k \in Keys, f \in BOOLEAN : GetStorage(k, f)
    \/ \E k \in Keys, f \in BOOLEAN : RemoveStorage(k, f)
    \/ \E f \in BOOLEAN : ClearStorage(f)

\* ------------------------------------------ claims on the storage helpers
\* The values JSON represents as they are: null, booleans, finite numbers,
\* strings, and arrays and objects of such values.
RECURSIVE Serializable(_)
Serializable(v) ==
    \/ v.t \in {"null", "bool", "num", "str"}
    \/ /\ v.t \in {"arr", "obj"}
       /\ \A i \in 1..Len(v.x) : Serializable(v.x[i])

\* C3: no helper raises to its caller, and a call one of whose steps failed
\* (the serialisation, the store's call, the parse) leaves the store as it
\* found it.
C3_StorageNeverThrows ==
    last.op # "none" =>
        /\ ~last.threw
        /\ last.failed => store = last.pre

\* A set whose store call raised over an entry that is there, left in place.
C3_Witness ==
    /\ last.op = "set"
    /\ last.failed
    /\ last.value = Null
    /\ store[last.key].has
    /\ store[last.key].text = <<"undefined">>

\* C4, as claimed: after a setStorage whose storage step failed, getStorage
\* of that key returns null, whatever the store held under the key.
C4_FailedSetThenNull ==
    (last.op = "get" /\ failedSet.was /\ failedSet.key = last.key) =>
        /\ ~last.threw
        /\ last.ret = Null

\* C4, amended: after a setStorage whose storage step failed, getStorage of
\* that key does not raise and returns what the store held under the key
\* before the failing call: null when it held nothing, and otherwise what
\* getStorage made of that entry.
C4_FailedSetThenOldValue ==
    (last.op = "get" /\ failedSet.was /\ failedSet.key = last.key) =>
        /\ ~last.threw
        /\ last.pre = failedSet.pre
        /\ ~failedSet.pre[last.key].has => last.ret = Null
        /\ last.ret \in {Null, getStorage(failedSet.pre, last.key, FALSE).ret}
        /\ ~last.failed => last.ret = getStorage(failedSet.pre, last.key, FALSE).ret

\* A failing set over a stored object, and the get after it returns the object.
C4_Witness ==
    /\ last.op = "get"
    /\ failedSet.was
    /\ failedSet.key = last.key
    /\ ghost[last.key] = Effect("set", Obj(<<Num("1")>>))
    /\ last.ret = Obj(<<Num("1")>>)

\* The key read last holds the value of a set that the store accepted, the
\* value is one JSON represents, and the read itself went through.
RoundTrip ==
    /\ last.op = "get"
    /\ ~last.failed
    /\ ghost[last.key].kind = "set"
    /\ Serializable(ghost[last.key].v)

\* C5, as claimed: getStorage returns the value of the last set of that key,
\* and never the "no value" sentinel.
C5_RoundTripNotSentinel ==
    RoundTrip => (last.ret = ghost[last.key].v /\ last.ret # Null)

\* C5, amended: getStorage returns the value of the last set of that key; it
\* is the "no value" sentinel only when null itself was stored.
C5_RoundTrip ==
    RoundTrip =>
        /\ last.ret = ghost[last.key].v
        /\ last.ret = Null => ghost[last.key].v = Null

\* An array of a string and a number read back, the other key holding a
\* later set of another value.
C5_Witness ==
    /\ RoundTrip
    /\ last.ret = Arr(<<Str(<<"a">>), Num("0")>>)
    /\ \E k \in Keys : ghost[k] = Effect("set", Str(<<>>))

\* C7: getStorage returns null for a key that holds no entry because none
\* was ever stored under it or because a remove of it or a clear was the
\* last call to take effect on it; after a clear that went through the store
\* holds no entry at all; a remove leaves the entries of the other keys as
\* they were and, when it went through, no entry under its key.
C7_Absence ==
    /\ (last.op = "get" /\ ghost[last.key].kind \in {"none", "removed", "cleared"})
          => last.ret = Null
    /\ (last.op = "clear" /\ ~last.failed) => \A k \in Keys : ~store[k].has
    /\ last.op = "remove" =>
          /\ \A k \in Keys \ {last.key} : store[k] = last.pre[k]
          /\ ~last.failed => ~store[last.key].has

\* A key set and then removed reads as null while the entry other code left
\* under the other key is still there.
C7_Witness ==
    /\ last.op = "get"
    /\ last.ret = Null
    /\ ghost[last.key].kind = "removed"
    /\ \E k \in Keys : ghost[k].kind = "foreign" /\ store[k].has

\* ------------------------------------------------------ claims on throttle
TCalls == 1..Len(tcalls)
TExecs == 1..Len(texecs)

\* C2: func is executed at most once in any window of limit, and the
\* invocation executed is the first one made in that window.
C2_ThrottleOncePerWindow ==
    /\ \A i, j \in TExecs : i < j => texecs[j].at >= texecs[i].at + tLimit
    /\ \A e \in TExecs : \A c \in TCalls :
          (c < texecs[e].call /\ tcalls[c].at > texecs[e].at - tLimit)
              => \E f \in TExecs : f < e /\ texecs[f].at > texecs[e].at - tLimit

\* C6: while the gate is closed a reopen timer is pending that is due no
\* later than limit after the gate was closed, whatever was dropped in
\* between; a closed gate reopens; and an invocation that finds the gate
\* open executes func at once, within that call, with its own arguments.
C6_ThrottleReopens ==
    /\ [](inThrottle = "true" =>
            \E t \in timers : t.kind = "reopen" /\ t.due <= closedAt + tLimit)
    /\ [][(Len(tcalls') > Len(tcalls) /\ inThrottle # "true") =>
            /\ Len(texecs') = Len(texecs) + 1
            /\ texecs'[Len(texecs')] =
                 [args |-> tcalls'[Len(tcalls')].args, at |-> now,
                  call |-> Len(tcalls')]]_vars
    /\ (inThrottle = "true") ~> (inThrottle = "false")

\* An execution, a dropped invocation, the reopening, and a second execution
\* limit or more after the first.
C6_Witness ==
    /\ Len(tcalls) = 3
    /\ Len(texecs) = 2
    /\ texecs[1].call = 1
    /\ texecs[2].call = 3
    /\ tcalls[2].at < texecs[1].at + tLimit
    /\ texecs[2].at >= texecs[1].at + tLimit
    /\ \A c \in TCalls : tcalls[c].depth = 0
    /\ tstack = <<>>
    /\ outcome = "returned"

\* C9: an invocation that finds the gate closed changes nothing but the
\* history of invocations: func is not executed, no timer is set, the gate
\* and the pending reopen timers stay as they were; and func is executed
\* only within an invocation of the wrapper, with that invocation's
\* arguments, never when a timer fires.
C9_ThrottleDropNoOp ==
    [][/\ (Len(tcalls') > Len(tcalls) /\ inThrottle = "true") =>
            UNCHANGED <<inThrottle, timers, nextId, tstack, texecs, closedAt>>
       /\ texecs' # texecs =>
            /\ Len(tcalls') = Len(tcalls) + 1
            /\ texecs' = Append(texecs, [args |-> tcalls'[Len(tcalls')].args,
                                         at |-> now, call |-> Len(tcalls')])
       /\ Cardinality(timers') < Cardinality(timers) => UNCHANGED texecs]_vars

\* An invocation was dropped, the gate has reopened since, and func has been
\* executed once only.
C9_Witness ==
    /\ Len(tcalls) = 2
    /\ Len(texecs) = 1
    /\ tcalls[2].depth = 0
    /\ inThrottle = "false"
    /\ timers = {}
    /\ tstack = <<>>

\* C10: starting an execution of func leaves the gate open and sets no timer;
\* a normal return of func closes the gate and sets exactly one reopen timer,
\* due limit from then; when func raises, the caller sees the exception, and
\* the gate and the timers are left as they were.
C10_ThrottleClosesAfter ==
    [][/\ Len(tstack') > Len(tstack) =>
            /\ inThrottle # "true"
            /\ UNCHANGED <<inThrottle, timers>>
            /\ Len(texecs') = Len(texecs) + 1
       /\ (Len(tstack') < Len(tstack) /\ outcome' = "returned") =>
            /\ inThrottle' = "true"
            /\ \E t \in timers' :
                  /\ t \notin timers
                  /\ t.due = now + tLimit
                  /\ timers' = timers \cup {t}
       /\ (Len(tstack') < Len(tstack) /\ outcome' # "returned") =>
            /\ outcome' = "threw"
            /\ UNCHANGED <<inThrottle, timers>>]_vars

\* func has called the wrapper from within, both executions have returned,
\* and two reopen timers are pending.
C10_Witness ==
    /\ Len(texecs) = 2
    /\ tcalls[2].depth = 1
    /\ tstack = <<>>
    /\ Cardinality(timers) = 2
    /\ inThrottle = "true"

\* func raised out of its only execution: gate open, no timer.
C10_WitnessThrow ==
    /\ Len(texecs) = 1
    /\ tstack = <<>>
    /\ outcome = "threw"
    /\ inThrottle = "undefined"
    /\ timers = {}

\* ---------------------------------------------------------- specifications
InitD ==
    InitTimers /\ InitDebounce(0..MaxWait) /\ InitThrottle({1}) /\ InitStorage({})

SpecDebounce == InitD /\ [][NextDebounce]_vars

\* The event loop keeps running: time passes and a due timer is fired.
FairDebounce ==
    /\ SpecDebounce
    /\ WF_vars(Tick)
    /\ WF_vars(DebounceFire)

InitT ==
    InitTimers /\ InitDebounce({0}) /\ InitThrottle(1..MaxWait) /\ InitStorage({})

SpecThrottle == InitT /\ [][NextThrottle]_vars

\* The event loop keeps running, and an execution of func comes to an end.
FairThrottle ==
    /\ SpecThrottle
    /\ WF_vars(Tick)
    /\ WF_vars(ThrottleReopen)
    /\ WF_vars(ThrottleReturn \/ ThrottleThrow)

InitS ==
    InitTimers /\ InitDebounce({0}) /\ InitThrottle({1}) /\ InitStorage(ForeignTexts)

SpecStorage == InitS /\ [][NextStorage]_vars

Next == NextDebounce \/ NextThrottle \/ NextStorage

Init ==
    /\ InitTimers /\ InitDebounce(0..MaxWait) /\ InitThrottle(1..MaxWait)
    /\ InitStorage(ForeignTexts)

Spec == Init /\ [][Next]_vars

====
